---- MODULE Spec2Model ----
(***************************************************************************)
(* The control flow of src/train.py: main (flag parsing, model assembly,   *)
(* checkpoint selection), train_model (the epoch loop with its learning-   *)
(* rate schedule, validation and checkpointing) and test_model (the        *)
(* evaluation pass with its optional visualisation loop).                  *)
(*                                                                         *)
(* A process is launched, runs main to its end, raises, or is killed from  *)
(* outside; the directories under models/ outlive it.  File names are      *)
(* sequences of one-character strings, compared as Python compares str.    *)
(***************************************************************************)
EXTENDS Integers, Sequences, FiniteSets, TLC

\* ------------------------------------------------------------- bounds
MaxEpochs == 4          \* FLAGS.epochs is drawn from 0..MaxEpochs
MaxLaunches == 3        \* launches of the script for one run id
MaxSamples == 3         \* samples of the validation and test splits
MaxGpus == 2            \* FLAGS.num_gpus is drawn up to MaxGpus

\* ------------------------------------------------- program constants
PadWidth == 4           \* "{:04d}"
RdnetWindow == 32       \* assert FLAGS.window == 32

\* max(S) for a non-empty set of integers, as the least of the negations
\* (TLC tries the candidates of a CHOOSE in increasing order)
SetMin(S) == CHOOSE x \in S : \A y \in S : x <= y
SetMax(S) == 0 - SetMin({0 - y : y \in S})

\* ------------------------------------------------------------ strings
\* The characters that occur in the names of a model directory, in the
\* order of their code points ('.' < '0'..'9' < 'a'..'z').
Alphabet ==
  <<".", "0", "1", "2", "3", "4", "5", "6", "7", "8", "9",
    "a", "b", "g", "k", "l", "m", "o", "p", "r", "s", "t", "x">>

Ord(c) == CHOOSE k \in 1..Len(Alphabet) : Alphabet[k] = c

DigitChars == <<"0", "1", "2", "3", "4", "5", "6", "7", "8", "9">>

IsDigit(c) == \E k \in 1..Len(DigitChars) : DigitChars[k] = c

DigitVal(c) == (CHOOSE k \in 1..Len(DigitChars) : DigitChars[k] = c) - 1

\* Python's a < b on str: the first differing character decides, a proper
\* prefix is smaller.
StrLess(a, b) ==
  \E k \in 1..Len(b) :
    /\ k <= Len(a) + 1
    /\ \A j \in 1..(k - 1) : a[j] = b[j]
    /\ \/ k = Len(a) + 1
       \/ Ord(a[k]) < Ord(b[k])

\* str(n) for n >= 0
RECURSIVE Str(_)
Str(n) == IF n < 10 THEN <<DigitChars[n + 1]>>
          ELSE Str(n \div 10) \o <<DigitChars[(n % 10) + 1]>>

\* the zero fill of "{:04d}": pads to at least PadWidth characters
RECURSIVE ZeroPad(_)
ZeroPad(s) == IF Len(s) >= PadWidth THEN s ELSE ZeroPad(<<"0">> \o s)

ParamsExt == <<".", "p", "a", "r", "a", "m", "s">>

\* "{:04d}.params".format(epoch)
CheckpointName(ep) == ZeroPad(Str(ep)) \o ParamsExt

\* f[-7:]
Last7(f) == IF Len(f) <= 7 THEN f ELSE SubSeq(f, Len(f) - 6, Len(f))

\* f[-7:] == '.params'
IsParams(f) == Last7(f) = ParamsExt

\* name.split('.')[0]
SplitDot0(f) ==
  IF \E k \in 1..Len(f) : f[k] = "."
  THEN SubSeq(f, 1, (CHOOSE k \in 1..Len(f) :
                       f[k] = "." /\ \A j \in 1..(k - 1) : f[j] # ".") - 1)
  ELSE f

\* int(s) is defined on a non-empty string of digits
IntOk(s) == Len(s) > 0 /\ \A k \in 1..Len(s) : IsDigit(s[k])

RECURSIVE ParseInt(_)
ParseInt(s) == IF Len(s) = 0 THEN 0
          ELSE 10 * ParseInt(SubSeq(s, 1, Len(s) - 1)) + DigitVal(s[Len(s)])

\* the greatest character at position p of the names of S that reach it
TopOrd(S, p) == SetMax({Ord(f[p]) : f \in {g \in S : Len(g) >= p}})

\* The greatest names of S, a set of names that agree before position p:
\* those with the greatest character at p (a name that ends before p is
\* smaller than the rest), compared from p + 1 on.
RECURSIVE Greatest(_, _)
RECURSIVE KeepTop(_, _, _)
KeepTop(S, p, top) ==
  Greatest({f \in S : Len(f) >= p /\ Ord(f[p]) = top}, p + 1)

Greatest(S, p) == IF Cardinality(S) <= 1 THEN S ELSE KeepTop(S, p, TopOrd(S, p))

\* (mutant) sorted(files)[0]: the sort without reverse=True
SortedAscendingFirst(files) ==
  CHOOSE f \in files : \A g \in files : f = g \/ StrLess(f, g)

\* sorted(files, reverse=True)[0], for files non-empty
SortedFirst(files) == CHOOSE f \in Greatest(files, 1) : TRUE

\* files = [f for f in os.listdir(dir) if f[-7:] == '.params']
ParamsFiles(listing) == {f \in listing : IsParams(f)}

LogTxt == <<"l", "o", "g", ".", "t", "x", "t">>
TbDir == <<"t", "b">>

\* ------------------------------------------------------------- flags
\* Python's None is written "None"; a flag is false when it is None or ''.
Truthy(v) == v \notin {"None", ""}

\* flags.DEFINE_*: the defaults, with the batch size and the epoch count
\* scaled to the bounds
DefaultFlags ==
  [model_id |-> "0000", backbone |-> "resnet18_v2", backbone_from_id |-> "None",
   window |-> 1, temp_pool |-> "None", epochs |-> MaxEpochs,
   lr_steps |-> <<2, 4>>, num_gpus |-> 1, vis |-> FALSE, batch_size |-> 2]

\* FLAGS.lr = 0.001 and FLAGS.lr_factor = 0.75, as fractions <<num, den>>
Lr == <<1, 1000>>
LrFactor == <<3, 4>>

RatMul(a, b) == <<a[1] * b[1], a[2] * b[2]>>

RECURSIVE RatPow(_, _)
RatPow(a, n) == IF n = 0 THEN <<1, 1>> ELSE RatMul(RatPow(a, n - 1), a)

\* (mutant) the decay taken from the configured rate, not the current one
DecayedFromInitial(rate) == RatMul(Lr, LrFactor)

\* trainer.learning_rate * FLAGS.lr_factor
Decayed(rate) == RatMul(rate, LrFactor)

\* ------------------------------------------------- datasets, metrics
\* A split of n samples holds the samples 0..n-1; sample s carries the
\* label Label(s), the network predicts Pred(s) for it, and the network's
\* k-th output for it is <<s, k>>.
Classes == {0, 1}
Label(s) == s % 2
Pred(s) == (s \div 2) % 2

\* metric.reset()
ResetMetric ==
  [num_inst |-> 0, sum_metric |-> 0, mat |-> [c \in Classes \X Classes |-> 0]]

\* one (label, output) pair of metric.update: Accuracy's counters and
\* PRF1's confusion matrix take every sample of the sub-batch
RECURSIVE UpdateOne(_, _)
UpdateOne(m, sub) ==
  IF Len(sub) = 0 THEN m
  ELSE LET s == Head(sub)
           c == <<Label(s), Pred(s)>>
       IN  UpdateOne([num_inst |-> m.num_inst + 1,
                      sum_metric |-> m.sum_metric + (IF Label(s) = Pred(s) THEN 1 ELSE 0),
                      mat |-> [m.mat EXCEPT ![c] = @ + 1]],
                     Tail(sub))

\* metric.update(labels, outputs): one pair per device
RECURSIVE MetricUpdate(_, _)
MetricUpdate(m, subs) ==
  IF Len(subs) = 0 THEN m
  ELSE MetricUpdate(UpdateOne(m, Head(subs)), Tail(subs))

\* len(loader): the batches of a split of n samples
NumBatches(n, bs) == (n + bs - 1) \div bs

\* the b-th batch (from 0) of the loader, as the sequence of its samples
LoaderBatch(n, bs, b) ==
  LET lo == b * bs
      hi == IF lo + bs < n THEN lo + bs ELSE n
  IN  [k \in 1..(hi - lo) |-> lo + k - 1]

\* ctx = [mx.gpu(i) for i in range(num_gpus)] if num_gpus > 0 else [mx.cpu()]
NumCtx(F) == IF F.num_gpus > 0 THEN F.num_gpus ELSE 1

\* gluon.utils.split_and_load(batch, ctx_list=ctx, batch_axis=0,
\* even_split=False): one slice per device, the last one taking the
\* remainder; fewer slices when the batch has fewer samples than devices
SplitAndLoad(batch, nctx) ==
  LET size == Len(batch)
      slices == IF size < nctx THEN size ELSE nctx
      step == IF size < nctx THEN 1 ELSE size \div nctx
  IN  IF nctx = 1 THEN <<batch>>
      ELSE [k \in 1..slices |->
              IF k < slices THEN SubSeq(batch, (k - 1) * step + 1, k * step)
              ELSE SubSeq(batch, (k - 1) * step + 1, size)]

\* net(x) for one sub-batch: one array of rows, or a tuple of n_out arrays
NetOutput(sub, heads) ==
  IF heads = 1 THEN [j \in 1..Len(sub) |-> <<sub[j], 1>>]
  ELSE [k \in 1..heads |-> [j \in 1..Len(sub) |-> <<sub[j], k>>]]

\* -------------------------------------------------------------- state
VARIABLES
  FLAGS,          \* the parsed flags of the run
  set_len,        \* len(train_set), len(val_set), len(test_set)
  n_out,          \* how many outputs the network returns per sample
  models,         \* the directories under models/: run id -> set of names
  pc,             \* where the process is
  error,          \* the exception that ended it, "" for none
  launches,       \* how often the script was started
  model,          \* the composed model: its wrapper and the files loaded
  start_epoch, epoch, lr_counter,
  learning_rate,  \* trainer.learning_rate
  i,              \* the batch index of the training loop
  metrics, val_metrics, test_metrics,
  tm,             \* the frame of test_model
  saved_samples,  \* the calls dataset.save_sample(idx, output) made
  hist            \* what happened so far (history, read by no action's guard)

vars == <<FLAGS, set_len, n_out, models, pc, error, launches, model,
          start_epoch, epoch, lr_counter, learning_rate, i,
          metrics, val_metrics, test_metrics, tm, saved_samples, hist>>

Stopped == {"idle", "finished", "raised", "killed"}

\* the frame of a test_model call that has not started
NoCall == [caller |-> "none", n |-> 0, vis |-> FALSE, b |-> 0, di |-> 0,
           subs |-> <<>>, idxs |-> [type |-> "ndarrays", v |-> <<>>],
           entry |-> ResetMetric]

\* test_model(net, loader, dataset, metrics, ctx, vis) is entered
Call(caller, n, vis, m) ==
  [caller |-> caller, n |-> n, vis |-> vis, b |-> 0, di |-> 0,
   subs |-> <<>>, idxs |-> [type |-> "ndarrays", v |-> <<>>], entry |-> m]

NoModel == [kind |-> "none", loaded |-> <<>>]

\* the epochs whose checkpoints a directory listing holds
EpochsOf(listing) == {ParseInt(SplitDot0(f)) : f \in ParamsFiles(listing)}

\* the part of hist that describes the running process
RunHist ==
  [ran |-> <<>>, trained |-> {}, validated |-> {}, saved |-> <<>>,
   decays |-> <<>>, selected |-> FALSE]

InitHist(dirs, id) ==
  LET done == IF id \in DOMAIN dirs THEN EpochsOf(dirs[id]) ELSE {}
  IN  [run |-> RunHist, ever_validated |-> done,
       last_saved |-> IF done = {} THEN -1 ELSE SetMax(done),
       killed_at |-> "none", stopped_in |-> -1,
       sel |-> [count |-> 0, start |-> 0, file |-> <<>>,
                prev_start |-> 0, prev_file |-> <<>>, unchanged |-> FALSE],
       dirty |-> FALSE]

\* the state before the first launch, for the given inputs
InitWith(flagSet, lenSet, outSet, dirSet) ==
  /\ FLAGS \in flagSet
  /\ set_len \in lenSet
  /\ n_out \in outSet
  /\ models \in dirSet
  /\ pc = "idle"
  /\ error = ""
  /\ launches = 0
  /\ model = NoModel
  /\ start_epoch = 0
  /\ epoch = 0
  /\ lr_counter = 0
  /\ learning_rate = Lr
  /\ i = 0
  /\ metrics = ResetMetric
  /\ val_metrics = ResetMetric
  /\ test_metrics = ResetMetric
  /\ tm = NoCall
  /\ saved_samples = <<>>
  /\ hist = InitHist(models, FLAGS.model_id)

\* no directory under models/
NoDirs == [d \in {} |-> {}]

\* inside the body of an epoch of train_model
InEpoch ==
  \/ pc \in {"batch", "save"}
  \/ pc \in {"test_model", "vis"} /\ tm.caller = "train_model"

\* ------------------------------------------------------- main: launch
\* main, lines 88-113: the flags are parsed, models/<model_id> is made if
\* it is missing, and the log file and the summary writer are opened in it
Launch ==
  /\ pc \in Stopped
  /\ launches < MaxLaunches
  /\ launches' = launches + 1
  /\ LET id == FLAGS.model_id
         old == IF id \in DOMAIN models THEN models[id] ELSE {}
     IN  models' = [d \in DOMAIN models \cup {id} |->
                      IF d = id THEN old \cup {LogTxt, TbDir} ELSE models[d]]
  /\ pc' = "assemble"
  /\ error' = ""
  /\ model' = NoModel
  /\ start_epoch' = 0
  /\ epoch' = 0
  /\ lr_counter' = 0
  /\ learning_rate' = Lr
  /\ i' = 0
  /\ metrics' = ResetMetric
  /\ val_metrics' = ResetMetric
  /\ test_metrics' = ResetMetric
  /\ tm' = NoCall
  /\ saved_samples' = <<>>
  /\ hist' = [hist EXCEPT !.run = RunHist, !.killed_at = "none",
                          !.stopped_in = IF hist.killed_at = "epoch"
                                         THEN epoch ELSE -1,
                          !.dirty = @ \/ models' # models]
  /\ UNCHANGED <<FLAGS, set_len, n_out>>

\* ----------------------------------------------------- main: assembly
NoFile == <<>>

\* lines 183-190: the newest parameter file of the backbone-source run,
\* NoFile when the flag is unset, the directory missing or without one
BackboneFile(F, dirs) ==
  IF /\ Truthy(F.backbone_from_id)
     /\ F.backbone_from_id \in DOMAIN dirs
     /\ ParamsFiles(dirs[F.backbone_from_id]) # {}
  THEN SortedFirst(ParamsFiles(dirs[F.backbone_from_id]))
  ELSE NoFile

\* (mutant) the asserts without the one on the window size
AssertsPassAnyWindow(F) ==
  IF F.window > 1
  THEN IF F.temp_pool \in {"max", "mean"} THEN Truthy(F.backbone_from_id)
       ELSE IF F.temp_pool \in {"gru", "lstm"} THEN TRUE
       ELSE F.backbone = "rdnet"
  ELSE TRUE

\* lines 194-201: whether every assert of the assembly passes
AssertsPass(F) ==
  IF F.window > 1
  THEN IF F.temp_pool \in {"max", "mean"} THEN Truthy(F.backbone_from_id)
       ELSE IF F.temp_pool \in {"gru", "lstm"} THEN TRUE
       ELSE F.backbone = "rdnet" /\ F.window = RdnetWindow
  ELSE TRUE

\* lines 177-198: the class of the composed model
ModelKind(F) ==
  IF F.window > 1 /\ F.temp_pool \in {"max", "mean"} THEN "TemporalPooling"
  ELSE IF F.window > 1 /\ F.temp_pool \in {"gru", "lstm"} THEN "CNNRNN"
  ELSE "FrameModel"

\* main, lines 171-218
Assemble ==
  /\ pc = "assemble"
  /\ LET f == IF FLAGS.window > 1 THEN BackboneFile(FLAGS, models) ELSE NoFile
     IN  model' = [kind |-> IF AssertsPass(FLAGS) THEN ModelKind(FLAGS)
                            ELSE "FrameModel",
                   loaded |-> IF f = NoFile THEN <<>>
                              ELSE << <<FLAGS.backbone_from_id, f>> >>]
  /\ IF AssertsPass(FLAGS)
     THEN pc' = "select" /\ error' = ""
     ELSE pc' = "raised" /\ error' = "AssertionError"
  /\ UNCHANGED <<FLAGS, set_len, n_out, models, launches, start_epoch, epoch,
                 lr_counter, learning_rate, i, metrics, val_metrics,
                 test_metrics, tm, saved_samples, hist>>

\* ----------------------------------------- main: checkpoint selection
\* lines 220-227: the file to resume from and the epoch to start at; int()
\* raises ValueError on a name whose stem is no number
ResolveCheckpoint(dirs, id) ==
  LET files == IF id \in DOMAIN dirs THEN ParamsFiles(dirs[id]) ELSE {}
  IN  IF files = {} THEN [file |-> NoFile, start_epoch |-> 0, ok |-> TRUE]
      ELSE LET model_name == SortedFirst(files)
               stem == SplitDot0(model_name)
           IN  IF IntOk(stem)
               THEN [file |-> model_name, start_epoch |-> ParseInt(stem) + 1,
                     ok |-> TRUE]
               ELSE [file |-> model_name, start_epoch |-> 0, ok |-> FALSE]

\* lines 227-260, with r the resolved checkpoint: it is loaded, the
\* trainer and the three metric lists are made, and training is entered
\* or skipped
SelectWith(r) ==
  /\ start_epoch' = r.start_epoch
  /\ IF r.ok
     THEN /\ model' = [model EXCEPT !.loaded =
                         IF r.file = NoFile THEN @
                         ELSE Append(@, <<FLAGS.model_id, r.file>>)]
          /\ error' = ""
          /\ pc' = IF FLAGS.temp_pool \notin {"max", "mean"}
                   THEN "train_model" ELSE "main_test"
     ELSE /\ model' = model
          /\ error' = "ValueError"
          /\ pc' = "raised"
  /\ learning_rate' = Lr
  /\ metrics' = ResetMetric
  /\ val_metrics' = ResetMetric
  /\ test_metrics' = ResetMetric
  /\ hist' = [hist EXCEPT
                 !.run.selected = TRUE, !.dirty = FALSE,
                 !.sel = [count |-> @.count + 1, start |-> r.start_epoch,
                          file |-> r.file, prev_start |-> @.start,
                          prev_file |-> @.file, unchanged |-> ~hist.dirty]]
  /\ UNCHANGED <<FLAGS, set_len, n_out, models, launches, epoch, lr_counter,
                 i, tm, saved_samples>>

\* main, lines 220-260
Select ==
  /\ pc = "select"
  /\ SelectWith(ResolveCheckpoint(models, FLAGS.model_id))

\* main, lines 263-265: test_model is called on the test split
MainTest ==
  /\ pc = "main_test"
  /\ tm' = Call("main", set_len.test, FLAGS.vis, test_metrics)
  /\ pc' = "test_model"
  /\ UNCHANGED <<FLAGS, set_len, n_out, models, error, launches, model,
                 start_epoch, epoch, lr_counter, learning_rate, i, metrics,
                 val_metrics, test_metrics, saved_samples, hist>>

\* main, lines 267-290: the matrices are printed, the test metrics read
\* and reset, and the process ends
Report ==
  /\ pc = "report"
  /\ test_metrics' = ResetMetric
  /\ pc' = "finished"
  /\ UNCHANGED <<FLAGS, set_len, n_out, models, error, launches, model,
                 start_epoch, epoch, lr_counter, learning_rate, i, metrics,
                 val_metrics, tm, saved_samples, hist>>

\* -------------------------------------------------------- train_model
\* lines 299-304: the loop is entered when epochs remain, else the model
\* is returned at once
TrainEnter ==
  /\ pc = "train_model"
  /\ IF FLAGS.epochs - start_epoch > 0
     THEN lr_counter' = 0 /\ epoch' = start_epoch /\ pc' = "epoch"
     ELSE UNCHANGED <<lr_counter, epoch>> /\ pc' = "main_test"
  /\ UNCHANGED <<FLAGS, set_len, n_out, models, error, launches, model,
                 start_epoch, learning_rate, i, metrics, val_metrics,
                 test_metrics, tm, saved_samples, hist>>

\* line 306: FLAGS.lr_steps[lr_counter] is read; past the end of the list
\* the read raises IndexError
StepReadable(F, counter) == counter < Len(F.lr_steps)

\* (variant) a boundary already passed also counts: the decay a resumed
\* run skipped would be caught up
AtBoundaryOrPast(F, ep, counter) == ep >= F.lr_steps[counter + 1]

\* line 306: epoch == FLAGS.lr_steps[lr_counter]
AtBoundary(F, ep, counter) == ep = F.lr_steps[counter + 1]

\* lines 304-313: an epoch begins: the schedule is consulted and the
\* training metrics are reset
EpochStart ==
  /\ pc = "epoch"
  /\ epoch < FLAGS.epochs
  /\ IF ~StepReadable(FLAGS, lr_counter)
     THEN /\ pc' = "raised"
          /\ error' = "IndexError"
          /\ UNCHANGED <<learning_rate, lr_counter, metrics, i, hist>>
     ELSE /\ pc' = "batch"
          /\ error' = ""
          /\ IF AtBoundary(FLAGS, epoch, lr_counter)
             THEN /\ learning_rate' = Decayed(learning_rate)
                  /\ lr_counter' = lr_counter + 1
                  /\ hist' = [hist EXCEPT
                        !.run.ran = Append(@, epoch),
                        !.run.decays = Append(@, <<epoch, lr_counter>>)]
             ELSE /\ UNCHANGED <<learning_rate, lr_counter>>
                  /\ hist' = [hist EXCEPT !.run.ran = Append(@, epoch)]
          /\ metrics' = ResetMetric
          /\ i' = 0
  /\ UNCHANGED <<FLAGS, set_len, n_out, models, launches, model, start_epoch,
                 epoch, val_metrics, test_metrics, tm, saved_samples>>

\* lines 304, 404: range(start_epoch, FLAGS.epochs) is exhausted
TrainReturn ==
  /\ pc = "epoch"
  /\ epoch >= FLAGS.epochs
  /\ pc' = "main_test"
  /\ UNCHANGED <<FLAGS, set_len, n_out, models, error, launches, model,
                 start_epoch, epoch, lr_counter, learning_rate, i, metrics,
                 val_metrics, test_metrics, tm, saved_samples, hist>>

\* lines 315-362: one batch: split over the devices, forward and backward,
\* one optimiser step, the metrics take every device's outputs.  (The
\* loader shuffles; the counts do not depend on the order.)
TrainBatch ==
  /\ pc = "batch"
  /\ i < NumBatches(set_len.train, FLAGS.batch_size)
  /\ metrics' = MetricUpdate(metrics,
                   SplitAndLoad(LoaderBatch(set_len.train, FLAGS.batch_size, i),
                                NumCtx(FLAGS)))
  /\ i' = i + 1
  /\ UNCHANGED <<FLAGS, set_len, n_out, models, pc, error, launches, model,
                 start_epoch, epoch, lr_counter, learning_rate, val_metrics,
                 test_metrics, tm, saved_samples, hist>>

\* (mutant) the parameters are saved when the batches are done, before
\* the validation pass
TrainDoneSavesFirst ==
  /\ pc = "batch"
  /\ i = NumBatches(set_len.train, FLAGS.batch_size)
  /\ tm' = Call("train_model", set_len.val, FALSE, val_metrics)
  /\ pc' = "test_model"
  /\ models' = [models EXCEPT ![FLAGS.model_id] = @ \cup {CheckpointName(epoch)}]
  /\ hist' = [hist EXCEPT !.run.trained = @ \cup {epoch},
                          !.run.saved = Append(@, epoch), !.last_saved = epoch,
                          !.dirty = TRUE]
  /\ UNCHANGED <<FLAGS, set_len, n_out, error, launches, model,
                 start_epoch, epoch, lr_counter, learning_rate, i, metrics,
                 val_metrics, test_metrics, saved_samples>>

\* lines 364-377: the batches are done; test_model is called on the
\* validation split with the validation metrics
TrainDone ==
  /\ pc = "batch"
  /\ i = NumBatches(set_len.train, FLAGS.batch_size)
  /\ tm' = Call("train_model", set_len.val, FALSE, val_metrics)
  /\ pc' = "test_model"
  /\ hist' = [hist EXCEPT !.run.trained = @ \cup {epoch}]
  /\ UNCHANGED <<FLAGS, set_len, n_out, models, error, launches, model,
                 start_epoch, epoch, lr_counter, learning_rate, i, metrics,
                 val_metrics, test_metrics, saved_samples>>

\* lines 379-402: the validation metrics are read and reset and the
\* epoch's parameters are saved; the loop moves to the next epoch
SaveCheckpoint ==
  /\ pc = "save"
  /\ val_metrics' = ResetMetric
  /\ models' = [models EXCEPT ![FLAGS.model_id] = @ \cup {CheckpointName(epoch)}]
  /\ epoch' = epoch + 1
  /\ pc' = "epoch"
  /\ hist' = [hist EXCEPT !.run.saved = Append(@, epoch), !.last_saved = epoch,
                          !.dirty = TRUE]
  /\ UNCHANGED <<FLAGS, set_len, n_out, error, launches, model, start_epoch,
                 lr_counter, learning_rate, i, metrics, test_metrics, tm,
                 saved_samples>>

\* --------------------------------------------------------- test_model
\* the metric list test_model was given
Target == IF tm.caller = "train_model" THEN val_metrics ELSE test_metrics

\* (mutant) test_model resets the metrics it is given before its first
\* batch
TestBatchResets ==
  /\ pc = "test_model"
  /\ tm.b < NumBatches(tm.n, FLAGS.batch_size)
  /\ LET subs == SplitAndLoad(LoaderBatch(tm.n, FLAGS.batch_size, tm.b),
                              NumCtx(FLAGS))
         before == IF tm.b = 0 THEN ResetMetric ELSE Target
     IN  /\ IF tm.caller = "train_model"
            THEN /\ val_metrics' = MetricUpdate(before, subs)
                 /\ UNCHANGED test_metrics
            ELSE /\ test_metrics' = MetricUpdate(before, subs)
                 /\ UNCHANGED val_metrics
         /\ IF tm.vis
            THEN /\ pc' = "vis"
                 /\ tm' = [tm EXCEPT !.di = 0, !.subs = subs,
                                     !.idxs = [type |-> "ndarrays", v |-> subs]]
            ELSE /\ pc' = "test_model"
                 /\ tm' = [tm EXCEPT !.b = @ + 1, !.subs = subs,
                                     !.idxs = [type |-> "ndarrays", v |-> subs]]
  /\ UNCHANGED <<FLAGS, set_len, n_out, models, error, launches, model,
                 start_epoch, epoch, lr_counter, learning_rate, i, metrics,
                 saved_samples, hist>>

\* lines 410-419: one batch of the loader: split, forward, metric update
TestBatch ==
  /\ pc = "test_model"
  /\ tm.b < NumBatches(tm.n, FLAGS.batch_size)
  /\ LET subs == SplitAndLoad(LoaderBatch(tm.n, FLAGS.batch_size, tm.b),
                              NumCtx(FLAGS))
     IN  /\ IF tm.caller = "train_model"
            THEN /\ val_metrics' = MetricUpdate(val_metrics, subs)
                 /\ UNCHANGED test_metrics
            ELSE /\ test_metrics' = MetricUpdate(test_metrics, subs)
                 /\ UNCHANGED val_metrics
         /\ IF tm.vis
            THEN /\ pc' = "vis"
                 /\ tm' = [tm EXCEPT !.di = 0, !.subs = subs,
                                     !.idxs = [type |-> "ndarrays", v |-> subs]]
            ELSE /\ pc' = "test_model"
                 /\ tm' = [tm EXCEPT !.b = @ + 1, !.subs = subs,
                                     !.idxs = [type |-> "ndarrays", v |-> subs]]
  /\ UNCHANGED <<FLAGS, set_len, n_out, models, error, launches, model,
                 start_epoch, epoch, lr_counter, learning_rate, i, metrics,
                 saved_samples, hist>>

\* lines 424-430: the save_sample calls for one device: sample j of the
\* slice with row j of every output
SampleCalls(ids, sub, heads) ==
  LET outputs_di == NetOutput(sub, heads)
  IN  [j \in 1..Len(ids) |->
         <<ids[j], IF heads > 1 THEN [k \in 1..heads |-> outputs_di[k][j]]
                   ELSE outputs_di[j]>>]

\* lines 421-430: one turn of the loop over the devices.  Line 422 reads
\* idxs[di].asnumpy() and binds the list of ints it makes to idxs itself:
\* on the next turn idxs[di] is an int (AttributeError) or lies past the
\* end of the list (IndexError)
VisDevice ==
  /\ pc = "vis"
  /\ tm.di < Len(tm.subs)
  /\ IF tm.idxs.type = "ints"
     THEN /\ pc' = "raised"
          /\ error' = IF tm.di < Len(tm.idxs.v) THEN "AttributeError"
                      ELSE "IndexError"
          /\ UNCHANGED <<tm, saved_samples>>
     ELSE LET ids == tm.idxs.v[tm.di + 1]
          IN  /\ saved_samples' = saved_samples \o
                     SampleCalls(ids, tm.subs[tm.di + 1], n_out)
              /\ tm' = [tm EXCEPT !.di = @ + 1,
                                  !.idxs = [type |-> "ints", v |-> ids]]
              /\ pc' = "vis"
              /\ error' = ""
  /\ UNCHANGED <<FLAGS, set_len, n_out, models, launches, model, start_epoch,
                 epoch, lr_counter, learning_rate, i, metrics, val_metrics,
                 test_metrics, hist>>

\* line 421: the loop over the devices is exhausted; the next batch
VisDone ==
  /\ pc = "vis"
  /\ tm.di = Len(tm.subs)
  /\ tm' = [tm EXCEPT !.b = @ + 1]
  /\ pc' = "test_model"
  /\ UNCHANGED <<FLAGS, set_len, n_out, models, error, launches, model,
                 start_epoch, epoch, lr_counter, learning_rate, i, metrics,
                 val_metrics, test_metrics, saved_samples, hist>>

\* line 432: the loader is exhausted and the metrics are returned, to
\* line 377 of train_model or to line 265 of main
TestReturn ==
  /\ pc = "test_model"
  /\ tm.b = NumBatches(tm.n, FLAGS.batch_size)
  /\ IF tm.caller = "train_model"
     THEN /\ pc' = "save"
          /\ hist' = [hist EXCEPT !.run.validated = @ \cup {epoch},
                                  !.ever_validated = @ \cup {epoch}]
     ELSE /\ pc' = "report"
          /\ UNCHANGED hist
  /\ UNCHANGED <<FLAGS, set_len, n_out, models, error, launches, model,
                 start_epoch, epoch, lr_counter, learning_rate, i, metrics,
                 val_metrics, test_metrics, tm, saved_samples>>

\* ---------------------------------------------------------- the world
\* the process is terminated from outside, at any point
Interrupt ==
  /\ pc \notin Stopped
  /\ pc' = "killed"
  /\ hist' = [hist EXCEPT !.killed_at = IF InEpoch THEN "epoch" ELSE "other"]
  /\ UNCHANGED <<FLAGS, set_len, n_out, models, error, launches, model,
                 start_epoch, epoch, lr_counter, learning_rate, i, metrics,
                 val_metrics, test_metrics, tm, saved_samples>>

Next ==
  \/ Launch
  \/ Assemble
  \/ Select
  \/ TrainEnter
  \/ EpochStart
  \/ TrainBatch
  \/ TrainDone
  \/ TestBatch
  \/ VisDevice
  \/ VisDone
  \/ TestReturn
  \/ SaveCheckpoint
  \/ TrainReturn
  \/ MainTest
  \/ Report
  \/ Interrupt

\* ------------------------------------------------------ specifications
LrStepChoices ==
  {<<>>, <<1>>, <<0, 2>>, <<1, 3>>, <<2, 4>>, <<2, 1>>, <<MaxEpochs + 1>>}

\* a fresh run id: training flags vary, the assembly is the default one
TrainFlags ==
  {[DefaultFlags EXCEPT !.epochs = e, !.lr_steps = st, !.vis = v, !.num_gpus = g] :
     e \in 0..MaxEpochs, st \in LrStepChoices, v \in BOOLEAN, g \in 1..MaxGpus}

Init ==
  InitWith(TrainFlags,
           {[train |-> MaxSamples, val |-> MaxSamples, test |-> MaxSamples]},
           {1}, {NoDirs})

Spec == Init /\ [][Next]_vars

\* The assembly flags vary, with every state of the backbone-source run's
\* directory: missing, without a parameter file, with two of them.
BackboneId == "bb01"

AssembleFlags ==
  {[DefaultFlags EXCEPT !.window = w, !.temp_pool = tp, !.backbone = bb,
                        !.backbone_from_id = id, !.vis = v, !.epochs = 1] :
     w \in {1, 2, RdnetWindow},
     tp \in {"None", "mean", "max", "gru", "lstm"},
     bb \in {"resnet18_v2", "rdnet"},
     id \in {"None", "", BackboneId},
     v \in BOOLEAN}

BackboneDirs ==
  {NoDirs} \cup
  {[d \in {BackboneId} |-> S] :
     S \in {{LogTxt, TbDir},
            {LogTxt, TbDir, CheckpointName(0), CheckpointName(1)}}}

InitAssemble ==
  InitWith(AssembleFlags,
           {[train |-> MaxSamples, val |-> 1, test |-> MaxSamples]},
           {1}, BackboneDirs)

SpecAssemble == InitAssemble /\ [][Next]_vars

\* The run's directory holds any set of names the script writes, among
\* them checkpoints of four and of five digits, or the checkpoints of the
\* epochs 0..19.
NamePool ==
  {LogTxt, TbDir} \cup
  {CheckpointName(e) : e \in {0, 2, 19, 9999, 10000}}

OwnDirs ==
  {NoDirs} \cup
  {[d \in {DefaultFlags.model_id} |-> S] :
     S \in (SUBSET NamePool) \cup
           {{LogTxt, TbDir} \cup {CheckpointName(e) : e \in 0..19}}}

SelectFlags ==
  {[DefaultFlags EXCEPT !.epochs = e, !.vis = v] :
     e \in {1, 21}, v \in BOOLEAN}

InitSelect ==
  InitWith(SelectFlags, {[train |-> 1, val |-> 1, test |-> MaxSamples]},
           {1}, OwnDirs)

SpecSelect == InitSelect /\ [][Next]_vars

\* test_model alone: the state in which it is entered, for every loader
\* length, device count, batch size and output shape, with metrics that
\* hold the counts of an earlier pass over 0..MaxSamples samples
EvalFlags ==
  {[DefaultFlags EXCEPT !.num_gpus = g, !.batch_size = bs, !.vis = v] :
     g \in 0..MaxGpus, bs \in 1..MaxSamples, v \in BOOLEAN}

EarlierPass(k) == MetricUpdate(ResetMetric, <<[j \in 1..k |-> j - 1]>>)

InitEval ==
  /\ FLAGS \in EvalFlags
  /\ set_len \in {[train |-> 1, val |-> n, test |-> n] : n \in 0..MaxSamples + 1}
  /\ n_out \in {1, 2}
  /\ models = [d \in {FLAGS.model_id} |-> {LogTxt, TbDir}]
  /\ pc = "test_model"
  /\ error = ""
  /\ launches = 1
  /\ model = [kind |-> "FrameModel", loaded |-> <<>>]
  /\ start_epoch = 0
  /\ epoch = 0
  /\ lr_counter = 0
  /\ learning_rate = Lr
  /\ i = 0
  /\ metrics = ResetMetric
  /\ \E k \in 0..MaxSamples :
       \/ /\ val_metrics = ResetMetric
          /\ test_metrics = EarlierPass(k)
          /\ tm = Call("main", set_len.test, FLAGS.vis, test_metrics)
       \/ /\ val_metrics = EarlierPass(k)
          /\ test_metrics = ResetMetric
          /\ tm = Call("train_model", set_len.val, FALSE, val_metrics)
  /\ saved_samples = <<>>
  /\ hist = [InitHist(models, FLAGS.model_id) EXCEPT !.run.selected = TRUE]

NextEval ==
  \/ TestBatch
  \/ VisDevice
  \/ VisDone
  \/ TestReturn

SpecEval == InitEval /\ [][NextEval]_vars

\* The run's directory after a run of 10^PadWidth - 1 or 10^PadWidth
\* epochs: the next epochs' numbers have more digits than the zero fill.
RECURSIVE Pow10(_)
Pow10(n) == IF n = 0 THEN 1 ELSE 10 * Pow10(n - 1)

LongFlags ==
  {[DefaultFlags EXCEPT !.epochs = Pow10(PadWidth) + 2, !.vis = v] :
     v \in BOOLEAN}

LongDirs ==
  {[d \in {DefaultFlags.model_id} |->
      {LogTxt, TbDir} \cup {CheckpointName(e) : e \in 0..(Pow10(PadWidth) - k)}] :
     k \in 1..2}

InitLong ==
  InitWith(LongFlags, {[train |-> 1, val |-> 1, test |-> 1]}, {1}, LongDirs)

SpecLong == InitLong /\ [][Next]_vars

\* ------------------------------------------------------------- claims
OwnDir == IF FLAGS.model_id \in DOMAIN models THEN models[FLAGS.model_id] ELSE {}

\* train_model has returned to main
AfterTraining ==
  \/ pc \in {"main_test", "report", "finished"}
  \/ pc \in {"test_model", "vis"} /\ tm.caller = "main"

Times(seq, x) == Cardinality({j \in DOMAIN seq : seq[j] = x})

Range(seq) == {seq[j] : j \in DOMAIN seq}

\* C1: in every execution of train_model each epoch the loop has completed
\* was saved exactly once, after all its training batches and its full
\* validation pass; an epoch is saved at most once, a validated epoch lacks
\* its checkpoint only while the save is the next step, a run that returns
\* has saved every epoch of [start_epoch, epochs), and no checkpoint file
\* exists for an epoch whose validation never completed, wherever the run
\* is interrupted.
C1_OneCheckpointPerCompletedEpoch ==
  LET run == hist.run
  IN  /\ \A e \in Range(run.saved) :
           /\ Times(run.saved, e) = 1
           /\ e \in run.trained
           /\ e \in run.validated
           /\ CheckpointName(e) \in OwnDir
      /\ \A e \in start_epoch..(epoch - 1) : Times(run.saved, e) = 1
      /\ \A e \in run.validated :
           e \in Range(run.saved) \/ (e = epoch /\ pc \in {"save", "killed"})
      /\ (AfterTraining /\ ModelKind(FLAGS) # "TemporalPooling") =>
           Range(run.saved) = start_epoch..(FLAGS.epochs - 1)
      /\ \A f \in ParamsFiles(OwnDir) :
           ParseInt(SplitDot0(f)) \in hist.ever_validated

\* a resumed run that completed two epochs and ended
C1_Witness ==
  /\ pc = "finished"
  /\ launches >= 2
  /\ start_epoch >= 1
  /\ Len(hist.run.saved) >= 2

\* the greatest checkpoint epoch a run of train_model leaves that starts at
\* epoch ep with the boundary pointer at counter and is never interrupted
\* (ep - 1: the epoch before the one that ends it)
RECURSIVE Uninterrupted(_, _, _)
Uninterrupted(F, ep, counter) ==
  IF ep >= F.epochs \/ ~StepReadable(F, counter) THEN ep - 1
  ELSE Uninterrupted(F, ep + 1,
                     IF AtBoundary(F, ep, counter) THEN counter + 1 ELSE counter)

\* C3: a run relaunched after an interruption inside epoch k starts at
\* epoch k, runs no epoch below k, and ends with the same greatest
\* checkpoint epoch as a run from epoch 0 that is never interrupted.
C3_ResumeSameFinalCheckpoint ==
  (launches >= 2 /\ hist.stopped_in >= 0 /\ hist.run.ran # <<>>) =>
    /\ start_epoch = hist.stopped_in
    /\ \A e \in Range(hist.run.ran) : e >= hist.stopped_in
    /\ (AfterTraining \/ pc = "raised") =>
         hist.last_saved = Uninterrupted(FLAGS, 0, 0)

Increasing(st) == \A j, k \in DOMAIN st : j < k => st[j] < st[k]

RatEq(a, b) == a[1] * b[2] = b[1] * a[2]

\* C4: in a run each boundary of FLAGS.lr_steps triggers the decay at most
\* once, at its own epoch; and in a run that starts at epoch 0 with
\* increasing boundaries the rate in effect during epoch e is the initial
\* rate times the factor once for each boundary b <= e.
C4_DecayOncePerBoundary ==
  LET d == hist.run.decays
  IN  /\ Len(d) <= Len(FLAGS.lr_steps)
      /\ \A j \in DOMAIN d :
           /\ d[j][2] = j - 1
           /\ d[j][1] = FLAGS.lr_steps[j]
      /\ (InEpoch /\ start_epoch = 0 /\ Increasing(FLAGS.lr_steps)) =>
           RatEq(learning_rate,
                 RatMul(Lr, RatPow(LrFactor,
                   Cardinality({j \in DOMAIN FLAGS.lr_steps :
                                  FLAGS.lr_steps[j] <= epoch}))))

\* an epoch of a run from epoch 0 after both boundaries: 9/16 of the rate
C4_Witness ==
  /\ pc = "batch"
  /\ start_epoch = 0
  /\ Len(hist.run.decays) = 2
  /\ learning_rate = <<9, 16000>>

\* C10: train_model never ends in an error: once it has returned it has
\* run exactly the epochs start_epoch..epochs-1 in order (none, and no
\* checkpoint, when start_epoch >= epochs), and reading the boundary list
\* never raises.
C10_TrainingReturns ==
  /\ ~(pc = "raised" /\ error = "IndexError")
  /\ (AfterTraining /\ ModelKind(FLAGS) # "TemporalPooling") =>
       /\ Len(hist.run.ran) = (IF FLAGS.epochs > start_epoch
                               THEN FLAGS.epochs - start_epoch ELSE 0)
       /\ \A j \in DOMAIN hist.run.ran : hist.run.ran[j] = start_epoch + j - 1
       /\ hist.run.saved = hist.run.ran

\* C2: the checkpoint selected at startup is the '.params' file of the
\* run's directory with the lexicographically greatest name, it is the
\* file that is loaded, and the starting epoch is the epoch that file was
\* saved for plus one; with no '.params' file the starting epoch is 0 and
\* nothing is loaded; a selection repeated on an unchanged directory gives
\* the result of the one before.
C2_CheckpointSelection ==
  /\ (hist.run.selected /\ hist.run.saved = <<>>) =>
       LET files == ParamsFiles(OwnDir)
           own == {j \in DOMAIN model.loaded :
                     model.loaded[j][1] = FLAGS.model_id}
       IN  /\ start_epoch = hist.sel.start
           /\ files = {} =>
                /\ start_epoch = 0
                /\ hist.sel.file = NoFile
                /\ own = {}
           /\ files # {} =>
                /\ hist.sel.file \in files
                /\ \A f \in files : f = hist.sel.file \/ StrLess(f, hist.sel.file)
                /\ hist.sel.file = CheckpointName(start_epoch - 1)
                /\ own # {}
                /\ \A j \in own : model.loaded[j][2] = hist.sel.file
  /\ (hist.sel.count >= 2 /\ hist.sel.unchanged) =>
       /\ hist.sel.start = hist.sel.prev_start
       /\ hist.sel.file = hist.sel.prev_file

\* the directory holds 0000.params .. 0019.params: file 0019.params and
\* starting epoch 20, selected a second time on the unchanged directory
C2_Witness ==
  /\ hist.run.selected
  /\ hist.sel.count >= 2
  /\ hist.sel.unchanged
  /\ Cardinality(ParamsFiles(OwnDir)) = 20
  /\ start_epoch = 20
  /\ hist.sel.file = CheckpointName(19)

TemporalModes == {"mean", "max", "gru", "lstm"}

\* the misconfigurations C5 names
MisconfiguredAsClaimed(F) ==
  /\ F.window > 1
  /\ \/ F.temp_pool \in TemporalModes /\ ~Truthy(F.backbone_from_id)
     \/ /\ F.temp_pool \notin TemporalModes
        /\ (F.backbone # "rdnet" \/ F.window # RdnetWindow)

\* the misconfigurations the asserts catch: the recurrent modes need no
\* backbone source
MisconfiguredPooling(F) ==
  /\ F.window > 1
  /\ \/ F.temp_pool \in {"mean", "max"} /\ ~Truthy(F.backbone_from_id)
     \/ /\ F.temp_pool \notin TemporalModes
        /\ (F.backbone # "rdnet" \/ F.window # RdnetWindow)

\* no training or evaluation step was taken in this run
NothingRan ==
  /\ hist.run.ran = <<>>
  /\ tm = NoCall
  /\ ~hist.run.selected

\* C5 (as claimed): the assembly ends in an assertion failure, before any
\* training or evaluation step, exactly for the configurations with
\* window > 1 and a recurrent or pooling mode without a backbone source,
\* or no temporal mode with another backbone than rdnet or another window
\* than 32.
C5_AssertsAsClaimed ==
  model # NoModel =>
    /\ (error = "AssertionError") <=> MisconfiguredAsClaimed(FLAGS)
    /\ error = "AssertionError" => NothingRan

\* C5 (amended): the same, with the backbone source required by the
\* pooling modes only.
C5_AssertsPoolingOnly ==
  model # NoModel =>
    /\ (error = "AssertionError") <=> MisconfiguredPooling(FLAGS)
    /\ error = "AssertionError" => pc = "raised" /\ NothingRan

\* no temporal mode, the 3D backbone, a window other than 32: aborted
C5_Witness ==
  /\ pc = "raised"
  /\ error = "AssertionError"
  /\ FLAGS.temp_pool = "None"
  /\ FLAGS.backbone = "rdnet"
  /\ FLAGS.window = 2

\* C6: when the pooled model is evaluated, the model it wraps has loaded
\* a parameter file of the backbone-source run.
C6_PooledBackboneLoaded ==
  (model.kind = "TemporalPooling" /\ pc \in {"test_model", "vis", "report"}) =>
    \E j \in DOMAIN model.loaded :
      /\ model.loaded[j][1] = FLAGS.backbone_from_id
      /\ model.loaded[j][2] \in ParamsFiles(models[FLAGS.backbone_from_id])

\* the output of the network for sample s, as save_sample should get it
OwnOutput(s) == IF n_out > 1 THEN [k \in 1..n_out |-> <<s, k>>] ELSE <<s, 1>>

\* the test_model call has returned
PassReturned ==
  /\ tm.caller # "none"
  /\ pc \in {"save", "report"}

\* C7: with vis set, test_model does not raise in its loop over the
\* devices, and when it returns save_sample was called exactly once per
\* sample of the loader, with the sample's index and its own output.
C7_EverySampleSavedOnce ==
  tm.vis =>
    /\ ~(pc = "raised" /\ error \in {"AttributeError", "IndexError"})
    /\ PassReturned =>
         /\ Len(saved_samples) = tm.n
         /\ \A s \in 0..(tm.n - 1) :
              Times(saved_samples, <<s, OwnOutput(s)>>) = 1

\* the counts of the samples 0..n-1, each taken once
MetricAdd(a, b) ==
  [num_inst |-> a.num_inst + b.num_inst,
   sum_metric |-> a.sum_metric + b.sum_metric,
   mat |-> [c \in Classes \X Classes |-> a.mat[c] + b.mat[c]]]

CountsOf(n) ==
  [num_inst |-> n,
   sum_metric |-> Cardinality({s \in 0..(n - 1) : Label(s) = Pred(s)}),
   mat |-> [c \in Classes \X Classes |->
              Cardinality({s \in 0..(n - 1) : <<Label(s), Pred(s)>> = c})]]

Min(a, b) == IF a < b THEN a ELSE b

\* the samples of the batches test_model has taken so far
SamplesTaken ==
  Min(tm.n, (IF pc \in {"vis", "raised"} THEN tm.b + 1 ELSE tm.b) * FLAGS.batch_size)

\* C8: during and after a pass of test_model the metrics it was given hold
\* the counts they held at entry plus the counts of every sample of every
\* batch taken so far: nothing is reset, a pass after an earlier pass adds
\* to its counts, and a pass over no sample returns the metrics as they
\* were, without raising.
C8_MetricsAccumulate ==
  /\ Target = MetricAdd(tm.entry, CountsOf(SamplesTaken))
  /\ PassReturned => Target = MetricAdd(tm.entry, CountsOf(tm.n))
  /\ tm.n = 0 => pc # "raised"

\* a second pass: metrics that held an earlier pass's counts, after a pass
\* of two batches or more split over two devices
C8_Witness ==
  /\ PassReturned
  /\ tm.entry.num_inst >= 2
  /\ tm.b >= 2
  /\ NumCtx(FLAGS) >= 2
  /\ Target.num_inst = tm.entry.num_inst + tm.n

\* C9: after a checkpoint is saved the run's directory holds at most one
\* checkpoint file per epoch, and the '.params' file with the
\* lexicographically greatest name is the checkpoint of the epoch completed
\* last, the highest one.  (The directory changes only when a checkpoint is
\* saved: the states right after a save are the ones to look at.)
C9_GreatestNameIsLatestEpoch ==
  (pc = "epoch" /\ hist.run.saved # <<>> /\ epoch = hist.last_saved + 1) =>
    LET files == ParamsFiles(OwnDir)
    IN  /\ SortedFirst(files) = CheckpointName(hist.last_saved)
        /\ \A f \in files : ParseInt(SplitDot0(f)) <= hist.last_saved
        /\ Cardinality(EpochsOf(files)) = Cardinality(files)

\* a run resumed at an epoch strictly after the first boundary of an
\* increasing boundary list, once its first epoch has begun
ResumedPastFirstBoundary ==
  /\ launches >= 2
  /\ hist.run.ran # <<>>
  /\ FLAGS.lr_steps # <<>>
  /\ Increasing(FLAGS.lr_steps)
  /\ start_epoch > FLAGS.lr_steps[1]

\* C11: in a run resumed at a starting epoch strictly greater than the
\* first boundary (boundaries increasing) the boundary pointer never
\* advances: it stays at the first boundary, no decay is applied at any
\* epoch of the run, later boundaries the run executes included, and the
\* learning rate is the configured initial rate, not the rate the earlier
\* run had reached, until the run ends.
C11_ResumedRunNeverDecays ==
  ResumedPastFirstBoundary =>
    /\ lr_counter = 0
    /\ hist.run.decays = <<>>
    /\ learning_rate = Lr
    /\ \A e \in Range(hist.run.ran) : e > FLAGS.lr_steps[1]

\* a resumed run that ended after executing the epoch of a later boundary
C11_Witness ==
  /\ ResumedPastFirstBoundary
  /\ pc = "finished"
  /\ \E j \in DOMAIN FLAGS.lr_steps :
       j >= 2 /\ FLAGS.lr_steps[j] \in Range(hist.run.ran)
  /\ learning_rate = Lr

====
